---- MODULE Spec2Model ----
(***************************************************************************)
(* Model of the remote tool-provider connection supervisor of              *)
(* src/py/mcp_clients.py: one McpClient, its background task               *)
(* _connection_monitor, and the foreground calls initialize, close,        *)
(* call_tool and the disabled setter.                                      *)
(*                                                                         *)
(* Scheduling is asyncio's: one task runs at a time and gives up control   *)
(* only at an await that really suspends.  Every action below is the code  *)
(* one task runs between two suspension points, so a state of the model is *)
(* a state in which every task is suspended (or not started, or finished). *)
(* Task.cancel() makes the task's pending await raise CancelledError the   *)
(* next time the task runs; CancelledError is not an Exception, so         *)
(* `except Exception` does not catch it.                                   *)
(***************************************************************************)
EXTENDS Integers, Sequences, FiniteSets, TLC

\* ------------------------------------------------------------------ bounds
\* Connection attempts (iterations of the supervisor loop) explored.
MaxAttempts == 2
\* Tools in the list a server answers list_tools with, for the cache reads.
MaxTools == 3

\* ------------------------------------------------------- program constants
RECONNECT_SLEEP == 5
HEARTBEAT_SLEEP == 30

\* -------------------------------------------------------------- input sets
None == "None"
Configs == {"cfgA", "cfgB"}
Callbacks == {None, "cbA"}
Callers == {"t1", "t2"}
Closers == {"k1", "k2"}
Sup == "monitor"

Tool(n) == [name |-> n, description |-> n, inputSchema |-> "schema"]
ToolNames == {"search", "translate", "fetch"}
ToolLists == {<<>>, <<Tool("search"), Tool("translate")>>}

VARIABLES
    \* McpClient fields
    config, on_failure_callback, shutdown, disabled, conn,
    tools_cache, tools_openai_cache,
    \* asyncio.Lock: its holder across a suspension, and its FIFO of waiters
    lock, waiters,
    \* the monitor task: where it is suspended, the exception it carries
    \* through the cleanup, a cancel() not yet delivered
    monitor_task, pending, cancel_requested,
    \* the connection of the current iteration
    generation, transport, sleeping, attempt_config,
    \* call_tool callers and close callers, and which of them take part
    call_pc, call_returned, call_session, close_pc, foreground,
    \* the last get_openai_functions call: its argument and what it returned
    functions_read,
    \* the last get_tool_list call: what it returned
    tool_list_read,
    \* one call of ConnectionManager.connect, followed on its own
    connecting,
    \* get_command_path: _CMD_PATH_CACHE, what shutil.which finds, the last call
    cmd_path_cache, search_path, resolved,
    \* SimpleTwitchChat: _running, _sock, the tasks start() created (_task is
    \* the last), stop() suspended at its await, the _connect_and_read calls
    running, sock, listeners, stop_pc, stop_awaits, connects,
    \* observations
    live_tasks, handshaken, refreshed, attempt_failed, attempt_callbacks,
    handled, lost

clientVars == <<config, on_failure_callback, shutdown, disabled, conn,
                tools_cache, tools_openai_cache>>
cacheVars == <<tools_cache, tools_openai_cache>>
lockVars == <<lock, waiters>>
callVars == <<call_pc, call_returned, call_session>>
connVars == <<generation, transport, attempt_config>>
obsVars == <<handshaken, refreshed, attempt_failed, attempt_callbacks,
             handled, lost>>
twitchVars == <<running, sock, listeners, stop_pc, stop_awaits, connects>>
unitVars == <<connecting, cmd_path_cache, search_path, resolved, twitchVars>>
vars == <<config, on_failure_callback, shutdown, disabled, conn,
          tools_cache, tools_openai_cache, lock, waiters,
          monitor_task, pending, cancel_requested,
          generation, transport, sleeping, attempt_config,
          call_pc, call_returned, call_session, close_pc, foreground,
          functions_read, tool_list_read, connecting, cmd_path_cache,
          search_path, resolved, live_tasks, handshaken, refreshed, attempt_failed,
          attempt_callbacks, handled, lost,
          running, sock, listeners, stop_pc, stop_awaits, connects>>

\* No get_openai_functions call was made yet.
NotRead == [called |-> FALSE, disable_tools |-> {}, returned |-> <<>>]

\* No get_tool_list call was made yet.
NotListed == [called |-> FALSE, returned |-> <<>>]

\* line 29: the dict given to connect(), by the keys it has
ConnectConfig(command, type, url) ==
    [command |-> command, type |-> type, url |-> url]

\* connect() has not been called.
NotConnecting ==
    [config |-> ConnectConfig(None, None, None), pc |-> "idle", kind |-> None,
     transport |-> "none", probe |-> "none", error |-> None]

\* No path: what shutil.which returns for a command it does not find, and a
\* key _CMD_PATH_CACHE does not hold.
NoPath == <<>>

\* get_command_path has not been called.
NotResolved ==
    [called |-> FALSE, key |-> <<None, None>>, returned |-> NoPath,
     raised |-> FALSE]

\* twitch_service.py, SimpleTwitchChat.__init__, lines 12-18: no socket, no
\* task, not running; nobody has called stop().
ChatConstructed ==
    /\ running = FALSE
    /\ sock = "none"
    /\ listeners = <<>>
    /\ stop_pc = "idle"
    /\ stop_awaits = 0
    /\ connects = 0

\* Line 10: _CMD_PATH_CACHE starts empty; connect and get_command_path are
\* not followed, and the Twitch chat listener is never started.
UnitsIdle ==
    /\ connecting = NotConnecting
    /\ cmd_path_cache = [k \in {} |-> None]
    /\ search_path = [c \in {} |-> None]
    /\ resolved = NotResolved
    /\ ChatConstructed

\* __init__, lines 90-101
ClientConstructed ==
    /\ config = None
    /\ on_failure_callback = None
    /\ shutdown = FALSE
    /\ disabled = FALSE
    /\ conn = 0
    /\ tools_cache = <<>>
    /\ tools_openai_cache = <<>>
    /\ lock = "free"
    /\ waiters = <<>>
    /\ monitor_task = "none"
    /\ pending = "none"
    /\ cancel_requested = FALSE
    /\ generation = 0
    /\ transport = "none"
    /\ sleeping = 0
    /\ attempt_config = None
    /\ call_pc = [c \in Callers |-> "idle"]
    /\ call_returned = "none"
    /\ call_session = [c \in Callers |-> "none"]
    /\ close_pc = [k \in Closers |-> "idle"]
    /\ functions_read = NotRead
    /\ tool_list_read = NotListed
    /\ live_tasks = 0
    /\ handshaken = FALSE
    /\ refreshed = FALSE
    /\ attempt_failed = "none"
    /\ attempt_callbacks = 0
    /\ handled = "none"
    /\ lost = "no"

\* A new client in a process that has resolved no command yet.
Constructed == ClientConstructed /\ UnitsIdle

\* A new client, used by one call_tool caller and one close caller at a time.
Init == foreground = {"t1", "k1"} /\ Constructed

\* A new client with two concurrent call_tool callers.
InitCallers == foreground = {"t1", "t2", "k1"} /\ Constructed

\* A new client with two close callers.
InitClosers == foreground = {"t1", "k1", "k2"} /\ Constructed

\* ------------------------------------------------------------ pure helpers
Remove(seq, x) == SelectSeq(seq, LAMBDA y : y # x)

\* _refresh_tools_cache, lines 139-150: the OpenAI-format entry of one tool
OpenAiEntry(t) ==
    [type |-> "function",
     function |-> [name |-> t.name, description |-> t.description,
                   parameters |-> t.inputSchema],
     original_name |-> t.name]

\* lines 139-150: the projected list, in the order of the raw list
Projected(tools) == [i \in DOMAIN tools |-> OpenAiEntry(tools[i])]

\* get_tool_list, lines 211-213: the value returned for a raw cache
get_tool_list(cache) ==
    IF cache = <<>> THEN <<>>
    ELSE [i \in DOMAIN cache |->
            [name |-> cache[i].name, description |-> cache[i].description,
             enabled |-> TRUE]]

\* lines 136 and 150: the two cache fields as a refresh leaves them when it
\* next gives up control; no await separates the two assignments.  (Torn: as
\* they would be across a suspension after line 139.)
RefreshedPairTorn(tools) == <<tools, <<>>>>
RefreshedPair(tools) == <<tools, Projected(tools)>>

\* get_openai_functions, lines 196-207: the value returned for a cache and a
\* disable list (of which only membership is used).
get_openai_functions_unfiltered(cache, disable_tools) == cache
get_openai_functions(cache, disable_tools) ==
    IF cache = <<>> THEN <<>>
    ELSE IF disable_tools = {} THEN cache
    ELSE SelectSeq(cache, LAMBDA t : t.original_name \notin disable_tools)

\* line 188: the delay before the retry that follows attempt n
RetryDelayBackoff(n) == IF n <= 1 THEN RECONNECT_SLEEP ELSE 2 * RECONNECT_SLEEP
RetryDelay(n) == RECONNECT_SLEEP

\* lines 184-185: what the cleanup leaves of a cache field
CacheKept(old) == old
CacheAfterClear(old) == <<>>

\* asyncio.Lock.acquire returns at once only when the lock is unlocked and
\* nobody waits for it; otherwise the caller queues behind the waiters.
LockFree(w) == lock = "free" /\ w = <<>>

\* lines 159 and 181: the monitor takes self._lock before it touches _conn
MonitorSkipsLock(w) == TRUE
MonitorMayLock(w) == LockFree(w)

\* line 217: call_tool takes self._lock
CallSkipsLock(w) == TRUE
CallMayLock(w) == LockFree(w)

\* line 218: `if not self._conn or not self._conn.session`
NoSessionCheck(c) == FALSE
SessionMissing(c) == c = 0

\* line 114: `self._monitor_task is None or self._monitor_task.done()`
AlwaysNewTask(t) == TRUE
NeedsNewTask(t) == t \in {"none", "done"}

\* line 119: `self._monitor_task and not self._monitor_task.done()`
MustCancel(t) == t \notin {"none", "done"}

\* lines 119-124: close() awaits the task it cancelled, else returns at once
CloseNoAwait(t) == "returned"
CloseNext(t) == IF MustCancel(t) THEN "awaiting" ELSE "returned"

\* lines 107-109: the setter assigns the flag and leaves the monitor task as
\* it is, whatever the value v
TaskRestartedOnEnable(t, v) == IF ~v /\ t = "done" THEN "created" ELSE t
TaskAfterSetDisabled(t, v) == t

\* lines 162-163: what the monitor does next once it has stored _conn: it
\* awaits _refresh_tools_cache, before the heartbeat loop of line 166
SkipsRefresh == "ping"
FirstStepConnected == "refresh"

\* lines 221-224: call_tool returns the result, or the error string of a
\* call that raised (r), and leaves self._conn as it is
ConnDroppedOnFailure(c, r) == IF r = "failed" THEN 0 ELSE c
ConnAfterCall(c, r) == c

\* lines 159-160: `async with self._lock` ends with the assignment of _conn,
\* so the lock is released before the refresh and the heartbeat loop
LockKeptAfterStore == Sup
LockAfterStore == "free"

\* line 112: initialize stores the configuration it is given
StoredConfig(old, new) == new

\* What the client is set to, as the except clause finds it at line 176.
ClientMode ==
    IF shutdown THEN "shutdown"
    ELSE IF on_failure_callback = None THEN "no_callback"
    ELSE IF disabled THEN "disabled" ELSE "ready"

\* line 176-178: the failure callback is awaited only under these conditions
CallbackIgnoresShutdown == ~disabled /\ on_failure_callback # None
CallbackDue == ~shutdown /\ ~disabled /\ on_failure_callback # None

CacheEmpty == tools_cache = <<>> /\ tools_openai_cache = <<>>
TaskAlive == monitor_task \notin {"none", "done"}

\* ------------------------------------------------- the monitor task's tail
\* lines 121-124: what becomes of a close() that awaits the task when the
\* task ends; how: "none" (the task returned), "cancel" (it was cancelled:
\* the await raises CancelledError, which close() catches), "exc" (it raised
\* an Exception, which the await raises again).
CloseLetsCancelOut(how) == IF how = "none" THEN "returned" ELSE "raised"
CloseWoken(how) == IF how = "exc" THEN "raised" ELSE "returned"

\* The task returns or raises.  Every close() awaiting it (line 122) is woken
\* and returns (lines 123-124); it touches nothing else of the client, so its
\* return is taken together with the end of the task.
TaskEnds(how) ==
    /\ monitor_task' = "done"
    /\ pending' = "none"
    /\ sleeping' = 0
    /\ close_pc' = [k \in Closers |->
                      IF close_pc[k] = "awaiting"
                      THEN CloseWoken(how) ELSE close_pc[k]]
    /\ live_tasks' = live_tasks - 1

\* After the finally block, lines 187-188 and the loop test of line 156 when
\* no sleep separates them.  exc: "none", "cancel" (CancelledError), "exc"
\* (an Exception raised by the callback); the last two end the task.
AfterFinally(exc) ==
    IF exc = "none" /\ ~shutdown
    THEN /\ monitor_task' = "retry_sleep"
         /\ pending' = "none"
         /\ sleeping' = RetryDelay(generation')
         /\ UNCHANGED <<close_pc, live_tasks>>
    ELSE TaskEnds(exc)

\* The finally block, lines 180-185; w is the lock's queue when it is reached.
Finally(exc, w) ==
    IF MonitorMayLock(w)
    THEN /\ conn' = 0
         /\ tools_cache' = CacheAfterClear(tools_cache)
         /\ tools_openai_cache' = CacheAfterClear(tools_openai_cache)
         /\ waiters' = w
         /\ AfterFinally(exc)
    ELSE /\ monitor_task' = "wait_lock_clear"
         /\ pending' = exc
         /\ waiters' = Append(w, Sup)
         /\ sleeping' = 0
         /\ UNCHANGED <<conn, cacheVars, close_pc, live_tasks>>

\* The except clause, lines 174-179, up to the await of the callback; cbs is
\* the number of callback invocations of this iteration so far.
HandleException(cbs) ==
    /\ handled' = ClientMode
    /\ IF CallbackDue
       THEN /\ monitor_task' = "callback"
            /\ pending' = "none"
            /\ sleeping' = 0
            /\ attempt_callbacks' = cbs + 1
            /\ UNCHANGED <<conn, cacheVars, waiters, close_pc, live_tasks>>
       ELSE /\ attempt_callbacks' = cbs
            /\ Finally("none", waiters)

\* (As it would be were the transport not bound to the `async with`: the
\* iteration goes on to its finally block and leaves the transport as it is.)
LeavesTransport(exc, w) ==
    /\ Finally(exc, w)
    /\ UNCHANGED <<transport, handled, attempt_callbacks>>

\* Leaving `async with ... connect(...)`, line 158: the exit stack closes the
\* session and the transport, which suspends.
StartTeardown(exc, w) ==
    /\ monitor_task' = "teardown"
    /\ pending' = exc
    /\ transport' = "closing"
    /\ waiters' = w
    /\ sleeping' = 0
    /\ UNCHANGED <<conn, cacheVars, close_pc, live_tasks, handled,
                   attempt_callbacks>>

\* --------------------------------------------------- the monitor task steps
\* Line 158: a new iteration evaluates connect(self._config).  Either
\* building the transport raises before anything is opened (an unknown type,
\* an unresolved command, a missing url), or the task suspends in it.
BeginAttempt ==
    /\ generation < MaxAttempts
    /\ generation' = generation + 1
    /\ attempt_config' = config
    /\ transport' = "none"
    /\ lost' = "no"
    /\ handshaken' = FALSE
    /\ refreshed' = FALSE
    /\ \/ /\ monitor_task' = "establish"
          /\ pending' = "none"
          /\ sleeping' = 0
          /\ attempt_failed' = "none"
          /\ attempt_callbacks' = 0
          /\ handled' = "none"
          /\ UNCHANGED <<conn, cacheVars, waiters, close_pc, live_tasks>>
       \/ /\ attempt_failed' = "config"
          /\ HandleException(0)

\* Line 156: the condition of the monitor's while loop.
LoopIgnoresShutdown == ~disabled
LoopGoesOn == ~shutdown /\ ~disabled

\* Line 156, the loop test, then line 158.
LoopTest ==
    IF LoopGoesOn
    THEN BeginAttempt
    ELSE /\ TaskEnds("none")
         /\ UNCHANGED <<connVars, obsVars, conn, cacheVars, waiters>>

\* The task created by initialize runs for the first time.
MonitorStart ==
    /\ monitor_task = "created"
    /\ ~cancel_requested
    /\ LoopTest
    /\ UNCHANGED <<foreground, unitVars, functions_read, tool_list_read, config, on_failure_callback, shutdown,
                   disabled, lock,
                   cancel_requested, callVars>>

\* Lines 42-77: the transport is open.
EstablishOk ==
    /\ monitor_task = "establish"
    /\ ~cancel_requested
    /\ monitor_task' = "handshake"
    /\ transport' = "open"
    /\ UNCHANGED <<foreground, unitVars, functions_read, tool_list_read, clientVars, lockVars, pending,
                   cancel_requested, generation,
                   sleeping, attempt_config, callVars, close_pc, live_tasks,
                   obsVars>>

\* Lines 42-77: opening the transport raises; nothing was opened.
EstablishFail ==
    /\ monitor_task = "establish"
    /\ ~cancel_requested
    /\ UNCHANGED connVars
    /\ attempt_failed' = "establish"
    /\ HandleException(attempt_callbacks)
    /\ UNCHANGED <<foreground, unitVars, functions_read, tool_list_read, config, on_failure_callback, shutdown,
                   disabled, lock,
                   cancel_requested, callVars, handshaken, refreshed, lost>>

\* Lines 80-85 and 159-163: session.initialize() returned; the monitor stores
\* the connection under the lock and starts the refresh (list_tools suspends).
HandshakeOk ==
    /\ monitor_task = "handshake"
    /\ ~cancel_requested
    /\ handshaken' = TRUE
    /\ IF MonitorMayLock(waiters)
       THEN /\ conn' = generation
            /\ lock' = LockAfterStore
            /\ monitor_task' = FirstStepConnected
            /\ UNCHANGED waiters
       ELSE /\ monitor_task' = "wait_lock_set"
            /\ waiters' = Append(waiters, Sup)
            /\ UNCHANGED <<conn, lock>>
    /\ UNCHANGED <<foreground, unitVars, functions_read, tool_list_read,
                   config, on_failure_callback, shutdown,
                   disabled, cacheVars, pending, cancel_requested, connVars, sleeping,
                   callVars, close_pc, live_tasks, refreshed, attempt_failed,
                   attempt_callbacks, handled, lost>>

\* Line 81: session.initialize() raises; the exit stack unwinds.
HandshakeFail ==
    /\ monitor_task = "handshake"
    /\ ~cancel_requested
    /\ attempt_failed' = "handshake"
    /\ StartTeardown("exc", waiters)
    /\ UNCHANGED <<foreground, unitVars, functions_read, tool_list_read, config, on_failure_callback, shutdown,
                   disabled, lock,
                   cancel_requested, generation, attempt_config, callVars,
                   handshaken, refreshed, lost>>

\* Lines 159-160 and 181-185: the monitor, first in the lock's queue, gets
\* the lock it waited for.
MonitorLockGranted ==
    /\ monitor_task \in {"wait_lock_set", "wait_lock_clear"}
    /\ ~cancel_requested
    /\ lock = "free"
    /\ waiters # <<>>
    /\ Head(waiters) = Sup
    /\ waiters' = Tail(waiters)
    /\ UNCHANGED connVars
    /\ IF monitor_task = "wait_lock_set"
       THEN /\ conn' = generation
            /\ lock' = LockAfterStore
            /\ monitor_task' = FirstStepConnected
            /\ UNCHANGED <<cacheVars, pending, sleeping, close_pc, live_tasks>>
       ELSE /\ conn' = 0
            /\ tools_cache' = CacheAfterClear(tools_cache)
            /\ tools_openai_cache' = CacheAfterClear(tools_openai_cache)
            /\ AfterFinally(pending)
            /\ UNCHANGED lock
    /\ UNCHANGED <<foreground, unitVars, functions_read, tool_list_read,
                   config, on_failure_callback, shutdown, disabled,
                   cancel_requested, callVars, obsVars>>

\* Line 166: `while not self._shutdown`, the heartbeat loop's only test.
HeartbeatStopsOnDisabled == ~shutdown /\ ~disabled
HeartbeatGoesOn == ~shutdown

\* Line 166, then line 169: the heartbeat loop test and the ping it sends.
HeartbeatTest ==
    IF HeartbeatGoesOn
    THEN /\ monitor_task' = "ping"
         /\ UNCHANGED <<pending, transport>>
    ELSE /\ monitor_task' = "teardown"
         /\ pending' = "none"
         /\ transport' = "closing"

\* Lines 151-153, then line 166: list_tools raised; _refresh_tools_cache
\* logs the exception and returns, and the heartbeat loop begins.  (Raises:
\* as it would be without the try of line 129.)
RefreshFailedRaises ==
    /\ UNCHANGED <<cacheVars, refreshed>>
    /\ monitor_task' = "teardown"
    /\ pending' = "exc"
    /\ transport' = "closing"
RefreshFailed ==
    /\ UNCHANGED <<cacheVars, refreshed>>
    /\ HeartbeatTest

\* Lines 126-153: list_tools returned or raised.
RefreshDone ==
    /\ monitor_task = "refresh"
    /\ ~cancel_requested
    /\ \/ /\ \E tools \in ToolLists :
                /\ tools_cache' = RefreshedPair(tools)[1]
                /\ tools_openai_cache' = RefreshedPair(tools)[2]
                /\ refreshed' = TRUE
          /\ HeartbeatTest
       \/ RefreshFailed
    /\ sleeping' = 0
    /\ UNCHANGED <<foreground, unitVars, functions_read, tool_list_read, config, on_failure_callback, shutdown,
                   disabled, conn,
                   lockVars, cancel_requested, generation, attempt_config,
                   callVars, close_pc, live_tasks, handshaken, attempt_failed,
                   attempt_callbacks, handled, lost>>

\* Lines 169 and 173: the ping is answered within 3 s.
PingOk ==
    /\ monitor_task = "ping"
    /\ ~cancel_requested
    /\ monitor_task' = "hb_sleep"
    /\ sleeping' = HEARTBEAT_SLEEP
    /\ UNCHANGED <<foreground, unitVars, functions_read, tool_list_read, clientVars, lockVars, pending,
                   cancel_requested, connVars,
                   callVars, close_pc, live_tasks, obsVars>>

\* Lines 169-172: the ping raises or times out; `break` leaves the
\* heartbeat loop and the `async with` block, with no exception pending.
PingFail ==
    /\ monitor_task = "ping"
    /\ ~cancel_requested
    /\ lost' = IF on_failure_callback # None THEN "cb" ELSE "nocb"
    /\ StartTeardown("none", waiters)
    /\ UNCHANGED <<foreground, unitVars, functions_read, tool_list_read, config, on_failure_callback, shutdown,
                   disabled, lock,
                   cancel_requested, generation, attempt_config, callVars,
                   handshaken, refreshed, attempt_failed>>

\* Line 173 done, then lines 166 and 169.
HeartbeatSleepDone ==
    /\ monitor_task = "hb_sleep"
    /\ ~cancel_requested
    /\ HeartbeatTest
    /\ sleeping' = 0
    /\ UNCHANGED <<foreground, unitVars, functions_read, tool_list_read, clientVars, lockVars, cancel_requested,
                   generation,
                   attempt_config, callVars, close_pc, live_tasks, obsVars>>

\* The exit stack has closed the session and the transport (line 158's
\* `async with` is left).  Closing may itself raise an Exception, which
\* replaces whatever was pending; an Exception reaches lines 174-179.
TeardownDone ==
    /\ monitor_task = "teardown"
    /\ ~cancel_requested
    /\ transport' = "closed"
    /\ UNCHANGED <<generation, attempt_config>>
    /\ \E raises \in BOOLEAN :
          IF raises \/ pending = "exc"
          THEN HandleException(attempt_callbacks)
          ELSE /\ Finally(pending, waiters)
               /\ UNCHANGED <<handled, attempt_callbacks>>
    /\ UNCHANGED <<foreground, unitVars, functions_read, tool_list_read, config, on_failure_callback, shutdown,
                   disabled, lock,
                   cancel_requested, callVars, handshaken, refreshed,
                   attempt_failed, lost>>

\* Line 179: the callback returned or raised an Exception.
CallbackDone ==
    /\ monitor_task = "callback"
    /\ ~cancel_requested
    /\ UNCHANGED connVars
    /\ \E raises \in BOOLEAN :
          Finally(IF raises THEN "exc" ELSE "none", waiters)
    /\ UNCHANGED <<foreground, unitVars, functions_read, tool_list_read, config, on_failure_callback, shutdown,
                   disabled, lock,
                   cancel_requested, callVars, obsVars>>

\* Line 188 done, then lines 156 and 158.
RetrySleepDone ==
    /\ monitor_task = "retry_sleep"
    /\ ~cancel_requested
    /\ LoopTest
    /\ UNCHANGED <<foreground, unitVars, functions_read, tool_list_read, config, on_failure_callback, shutdown,
                   disabled, lock,
                   cancel_requested, callVars>>

\* The task runs after close() cancelled it (line 120): the await it is
\* suspended in raises CancelledError.
MonitorCancelled ==
    /\ cancel_requested
    /\ TaskAlive
    /\ cancel_requested' = FALSE
    /\ UNCHANGED <<generation, attempt_config>>
    /\ CASE monitor_task \in {"created", "retry_sleep"} ->
              /\ TaskEnds("cancel")
              /\ UNCHANGED <<conn, cacheVars, waiters, transport>>
         [] monitor_task = "wait_lock_clear" ->
              /\ TaskEnds("cancel")
              /\ waiters' = Remove(waiters, Sup)
              /\ UNCHANGED <<conn, cacheVars, transport>>
         [] monitor_task \in {"establish", "callback"} ->
              /\ Finally("cancel", waiters)
              /\ UNCHANGED transport
         [] monitor_task = "teardown" ->
              /\ pending' = "cancel"
              /\ UNCHANGED <<monitor_task, sleeping, conn, cacheVars, waiters,
                             transport, close_pc, live_tasks>>
         [] OTHER ->
              /\ monitor_task' = "teardown"
              /\ pending' = "cancel"
              /\ transport' = "closing"
              /\ waiters' = Remove(waiters, Sup)
              /\ sleeping' = 0
              /\ UNCHANGED <<conn, cacheVars, close_pc, live_tasks>>
    /\ UNCHANGED <<foreground, unitVars, functions_read, tool_list_read, config, on_failure_callback, shutdown,
                   disabled, lock,
                   callVars, obsVars>>

\* ------------------------------------------------------- foreground calls
\* Idle callers are interchangeable: the next call is made by the first of
\* them (in the order of their names).
Before(a, b) == \/ a = "t1" /\ b = "t2"
                \/ a = "k1" /\ b = "k2"
FirstIdle(S, pcs, x) == \A y \in S : Before(y, x) => pcs[y] # "idle"

\* initialize, lines 111-115.  Configurations differ only by their names:
\* the first one a client is given is called cfgA.
Initialize(cfg, cb) ==
    /\ config = None => cfg = "cfgA"
    /\ config' = StoredConfig(config, cfg)
    /\ on_failure_callback' = cb
    /\ IF NeedsNewTask(monitor_task)
       THEN /\ monitor_task' = "created"
            /\ pending' = "none"
            /\ cancel_requested' = FALSE
            /\ live_tasks' = live_tasks + 1
            /\ lost' = "no"
       ELSE UNCHANGED <<monitor_task, pending, cancel_requested, live_tasks,
                        lost>>
    /\ UNCHANGED <<foreground, unitVars, functions_read, tool_list_read, shutdown, disabled, conn, cacheVars, lockVars,
                   connVars, sleeping, callVars, close_pc, handshaken,
                   refreshed, attempt_failed, attempt_callbacks, handled>>

\* close, lines 117-122, up to `await self._monitor_task`.
Close(k) ==
    /\ k \in foreground
    /\ close_pc[k] = "idle"
    /\ FirstIdle(Closers, close_pc, k)
    /\ shutdown' = TRUE
    /\ cancel_requested' = (cancel_requested \/ MustCancel(monitor_task))
    /\ close_pc' = [close_pc EXCEPT ![k] = CloseNext(monitor_task)]
    /\ UNCHANGED <<foreground, unitVars, functions_read, tool_list_read, config, on_failure_callback, disabled, conn,
                   cacheVars,
                   lockVars, monitor_task, pending, connVars, sleeping,
                   callVars, live_tasks, obsVars>>

\* The disabled setter, lines 107-109.
SetDisabled(v) ==
    /\ disabled # v
    /\ disabled' = v
    /\ monitor_task' = TaskAfterSetDisabled(monitor_task, v)
    /\ UNCHANGED <<foreground, unitVars, functions_read, tool_list_read, config, on_failure_callback,
                   shutdown, conn, cacheVars, lockVars, pending, cancel_requested, connVars,
                   sleeping, callVars, close_pc, live_tasks, obsVars>>

\* call_tool, lines 218-221, run by caller c once it holds the lock: without
\* a session it returns the error string and releases the lock at once;
\* otherwise it awaits session.call_tool, keeping the lock.
CheckAndForward(c) ==
    IF SessionMissing(conn)
    THEN /\ call_pc' = [call_pc EXCEPT ![c] = "idle"]
         /\ call_returned' = "not_connected"
         /\ UNCHANGED <<call_session, lock>>
    ELSE /\ call_pc' = [call_pc EXCEPT ![c] = "inflight"]
         /\ call_session' = [call_session EXCEPT ![c] = transport]
         /\ lock' = c
         /\ UNCHANGED call_returned

\* call_tool, lines 215-221.
CallTool(c) ==
    /\ c \in foreground
    /\ call_pc[c] = "idle"
    /\ FirstIdle(Callers, call_pc, c)
    /\ IF CallMayLock(waiters)
       THEN /\ CheckAndForward(c)
            /\ UNCHANGED waiters
       ELSE /\ call_pc' = [call_pc EXCEPT ![c] = "wait_lock"]
            /\ waiters' = Append(waiters, c)
            /\ UNCHANGED <<lock, call_returned, call_session>>
    /\ UNCHANGED <<foreground, unitVars, functions_read, tool_list_read, clientVars, monitor_task, pending,
                   cancel_requested,
                   connVars, sleeping, close_pc, live_tasks, obsVars>>

\* call_tool, line 217: caller c, first in the lock's queue, gets the lock.
CallToolGranted(c) ==
    /\ call_pc[c] = "wait_lock"
    /\ lock = "free"
    /\ waiters # <<>>
    /\ Head(waiters) = c
    /\ waiters' = Tail(waiters)
    /\ CheckAndForward(c)
    /\ UNCHANGED <<foreground, unitVars, functions_read, tool_list_read, clientVars, monitor_task, pending,
                   cancel_requested,
                   connVars, sleeping, close_pc, live_tasks, obsVars>>

\* call_tool, lines 221-224: the forwarded call returned or raised; either
\* way call_tool returns a value and releases the lock.
CallToolReturn(c) ==
    /\ call_pc[c] = "inflight"
    /\ call_pc' = [call_pc EXCEPT ![c] = "idle"]
    /\ \E r \in {"result", "failed"} :
          /\ call_returned' = r
          /\ conn' = ConnAfterCall(conn, r)
    /\ call_session' = [call_session EXCEPT ![c] = "none"]
    /\ lock' = "free"
    /\ UNCHANGED <<foreground, unitVars, functions_read, tool_list_read, config,
                   on_failure_callback, shutdown, disabled, cacheVars,
                   waiters, monitor_task, pending,
                   cancel_requested, connVars, sleeping, close_pc, live_tasks,
                   obsVars>>

Next ==
    \/ \E cfg \in Configs, cb \in Callbacks : Initialize(cfg, cb)
    \/ \E k \in Closers : Close(k)
    \/ \E v \in BOOLEAN : SetDisabled(v)
    \/ \E c \in Callers : CallTool(c)
    \/ \E c \in Callers : CallToolGranted(c)
    \/ \E c \in Callers : CallToolReturn(c)
    \/ MonitorStart
    \/ EstablishOk
    \/ EstablishFail
    \/ HandshakeOk
    \/ HandshakeFail
    \/ MonitorLockGranted
    \/ RefreshDone
    \/ PingOk
    \/ PingFail
    \/ HeartbeatSleepDone
    \/ TeardownDone
    \/ CallbackDone
    \/ RetrySleepDone
    \/ MonitorCancelled
Spec == Init /\ [][Next]_vars

SpecCallers == InitCallers /\ [][Next]_vars

SpecClosers == InitClosers /\ [][Next]_vars

\* ------------------------------------------------------ reading the cache
\* get_openai_functions, lines 191-207: it has no await, so it runs in one
\* step; it reads self._tools_openai_cache and assigns nothing.
GetOpenAiFunctions(disable_tools) ==
    /\ functions_read' =
          [called |-> TRUE, disable_tools |-> disable_tools,
           returned |-> get_openai_functions(tools_openai_cache, disable_tools)]
    /\ UNCHANGED <<foreground, unitVars, tool_list_read, clientVars, lockVars,
                   monitor_task, pending,
                   cancel_requested, connVars, sleeping, callVars, close_pc,
                   live_tasks, obsVars>>

\* get_tool_list, lines 209-213: no await either; it reads self._tools_cache
\* and assigns nothing.
GetToolList ==
    /\ tool_list_read' =
          [called |-> TRUE, returned |-> get_tool_list(tools_cache)]
    /\ UNCHANGED <<foreground, unitVars, functions_read, clientVars, lockVars,
                   monitor_task, pending,
                   cancel_requested, connVars, sleeping, callVars, close_pc,
                   live_tasks, obsVars>>

\* The tool lists a server may answer list_tools with (line 132), up to
\* MaxTools tools.
ToolSeqs == UNION {[1..n -> {Tool(x) : x \in ToolNames}] : n \in 0..MaxTools}

\* A client whose first connection has refreshed its cache (lines 158-163,
\* 132-150) and now sends its first ping (line 169); nobody calls call_tool
\* or close.
InitReaders ==
    /\ foreground = {}
    /\ UnitsIdle
    /\ config = "cfgA"
    /\ on_failure_callback = None
    /\ shutdown = FALSE
    /\ disabled = FALSE
    /\ conn = 1
    /\ \E tools \in ToolSeqs :
          /\ tools_cache = tools
          /\ tools_openai_cache = Projected(tools)
    /\ lock = "free"
    /\ waiters = <<>>
    /\ monitor_task = "ping"
    /\ pending = "none"
    /\ cancel_requested = FALSE
    /\ generation = 1
    /\ transport = "open"
    /\ sleeping = 0
    /\ attempt_config = "cfgA"
    /\ call_pc = [c \in Callers |-> "idle"]
    /\ call_returned = "none"
    /\ call_session = [c \in Callers |-> "none"]
    /\ close_pc = [k \in Closers |-> "idle"]
    /\ functions_read = NotRead
    /\ tool_list_read = NotListed
    /\ live_tasks = 1
    /\ handshaken = TRUE
    /\ refreshed = TRUE
    /\ attempt_failed = "none"
    /\ attempt_callbacks = 0
    /\ handled = "none"
    /\ lost = "no"

NextReaders ==
    \/ \E disable_tools \in SUBSET ToolNames :
          GetOpenAiFunctions(disable_tools)
    \/ GetToolList

SpecReaders == InitReaders /\ [][NextReaders]_vars

\* ------------------------------------------ ConnectionManager.connect
\* Everything of the client, which connect() does not touch.
clientSide == <<foreground, functions_read, tool_list_read, clientVars,
                lockVars, monitor_task, pending, cancel_requested, connVars,
                sleeping, callVars, close_pc, live_tasks, obsVars>>

\* The values of config["type"] tried: the three kinds, a second spelling of
\* streamable HTTP, and two that are none of them.
TypeNames == {"ws", "sse", "streamablehttp", "streamable-http", "stdio",
              "http"}

\* line 52: `"streamable" in mcptype`
Streamable(t) == t \in {"streamablehttp", "streamable-http"}

\* lines 50-53: the type tested by the branches of lines 58-77
mcptype(cfg) ==
    LET t == IF cfg.type = None THEN "ws" ELSE cfg.type
    IN  IF Streamable(t) THEN "streamablehttp" ELSE t

ConfigErrors == {"FileNotFoundError", "KeyError", "ValueError"}

\* lines 42-77: the transport connect() goes on to open for a config, or the
\* exception it raises before it opens any; found: get_command_path finds
\* the command (or uv).
SelectedTransportUrlFirst(cfg, found) ==
    IF cfg.url # None
    THEN IF mcptype(cfg) \in {"ws", "sse", "streamablehttp"}
         THEN mcptype(cfg) ELSE "ValueError"
    ELSE IF cfg.command = None THEN "KeyError"
    ELSE IF found THEN "stdio" ELSE "FileNotFoundError"
SelectedTransport(cfg, found) ==
    IF cfg.command # None
    THEN IF found THEN "stdio" ELSE "FileNotFoundError"
    ELSE IF cfg.url = None THEN "KeyError"
    ELSE IF mcptype(cfg) \in {"ws", "sse", "streamablehttp"}
         THEN mcptype(cfg) ELSE "ValueError"

\* lines 66-72: whether connect() goes on after the SSE probe.  An event
\* received: yes.  EndOfStream or another Exception: RuntimeError is raised.
\* The 3 s of move_on_after elapse: the cancel scope ends the receive and the
\* `with` block is left without an exception.
ProbePasses(outcome) == outcome \in {"event", "timeout"}

\* lines 40-56: connect(config) runs up to its first await.
ConnectCalled ==
    /\ connecting.pc = "called"
    /\ \E found \in BOOLEAN :
          LET sel == SelectedTransport(connecting.config, found)
          IN  connecting' =
                IF sel \in ConfigErrors
                THEN [connecting EXCEPT !.pc = "raised", !.error = sel]
                ELSE [connecting EXCEPT !.pc = "entering", !.kind = sel]
    /\ UNCHANGED <<clientSide, twitchVars, cmd_path_cache, search_path, resolved>>

\* lines 48, 59, 62, 74: the transport's context is entered.
ConnectEntered ==
    /\ connecting.pc = "entering"
    /\ connecting' =
          [connecting EXCEPT !.transport = "open",
                             !.pc = IF connecting.kind = "sse"
                                    THEN "probe" ELSE "session"]
    /\ UNCHANGED <<clientSide, twitchVars, cmd_path_cache, search_path, resolved>>

\* lines 48, 59, 62, 74: entering the transport's context raises.
ConnectEnterFailed ==
    /\ connecting.pc = "entering"
    /\ connecting' =
          [connecting EXCEPT !.pc = "raised", !.error = "TransportError"]
    /\ UNCHANGED <<clientSide, twitchVars, cmd_path_cache, search_path, resolved>>

\* lines 66-72: the SSE probe ends; on an exception the exit stack closes
\* the transport.
ConnectProbed(outcome) ==
    /\ connecting.pc = "probe"
    /\ connecting' =
          IF ProbePasses(outcome)
          THEN [connecting EXCEPT !.probe = outcome, !.pc = "session"]
          ELSE [connecting EXCEPT !.probe = outcome, !.pc = "raised",
                                  !.error = "RuntimeError",
                                  !.transport = "closed"]
    /\ UNCHANGED <<clientSide, twitchVars, cmd_path_cache, search_path, resolved>>

\* lines 80-85: the session is entered, initialize() returns, connect yields.
ConnectYielded ==
    /\ connecting.pc = "session"
    /\ connecting' = [connecting EXCEPT !.pc = "yielded"]
    /\ UNCHANGED <<clientSide, twitchVars, cmd_path_cache, search_path, resolved>>

\* lines 80-81: entering the session or initialize() raises; the exit stack
\* closes the transport.
ConnectSessionFailed ==
    /\ connecting.pc = "session"
    /\ connecting' =
          [connecting EXCEPT !.pc = "raised", !.error = "HandshakeError",
                             !.transport = "closed"]
    /\ UNCHANGED <<clientSide, twitchVars, cmd_path_cache, search_path, resolved>>

\* line 40: the `async with` of the caller is left and the exit stack closes
\* the session and the transport.
ConnectExited ==
    /\ connecting.pc = "yielded"
    /\ connecting' = [connecting EXCEPT !.pc = "exited",
                                        !.transport = "closed"]
    /\ UNCHANGED <<clientSide, twitchVars, cmd_path_cache, search_path, resolved>>

\* connect() is called with a config of any shape.
InitConnect ==
    /\ foreground = {}
    /\ ClientConstructed
    /\ \E command \in {None, "npx"}, type \in {None} \cup TypeNames,
          url \in {None, "u"} :
          connecting = [NotConnecting EXCEPT
                          !.config = ConnectConfig(command, type, url),
                          !.pc = "called"]
    /\ cmd_path_cache = [k \in {} |-> None]
    /\ search_path = [c \in {} |-> None]
    /\ resolved = NotResolved
    /\ ChatConstructed

NextConnect ==
    \/ ConnectCalled
    \/ ConnectEntered
    \/ ConnectEnterFailed
    \/ \E outcome \in {"event", "end_of_stream", "timeout", "error"} :
          ConnectProbed(outcome)
    \/ ConnectYielded
    \/ ConnectSessionFailed
    \/ ConnectExited

SpecConnect == InitConnect /\ [][NextConnect]_vars

\* ----------------------------------------------------- get_command_path
\* The commands asked for, the defaults given with them, and the directories
\* of the search path a command may be found in.
CommandNames == {"npx"}
DefaultCommands == {"uv", "node"}
Dirs == {"/usr/bin", "/opt/bin"}

\* line 17: shutil.which(c), for the search path as it is now
which(c) == IF search_path[c] = None THEN NoPath ELSE <<search_path[c], c>>

\* lines 13-15: the path _CMD_PATH_CACHE holds for a key, if any
CachedPathNever(cache, key) == NoPath
CachedPath(cache, key) == cache[key]

\* get_command_path(command_name, default_command), lines 12-22.
GetCommandPath(command_name, default_command) ==
    LET cache_key == <<command_name, default_command>>
        cached == CachedPath(cmd_path_cache, cache_key)
        path == IF which(command_name) # NoPath
                THEN which(command_name) ELSE which(default_command)
    IN  /\ IF cached # NoPath
           THEN /\ resolved' = [called |-> TRUE, key |-> cache_key,
                                returned |-> cached, raised |-> FALSE]
                /\ UNCHANGED cmd_path_cache
           ELSE IF path = NoPath
           THEN /\ resolved' = [called |-> TRUE, key |-> cache_key,
                                returned |-> NoPath, raised |-> TRUE]
                /\ UNCHANGED cmd_path_cache
           ELSE /\ cmd_path_cache' =
                      [cmd_path_cache EXCEPT ![cache_key] = path]
                /\ resolved' = [called |-> TRUE, key |-> cache_key,
                                returned |-> path, raised |-> FALSE]
        /\ UNCHANGED <<clientSide, twitchVars, connecting, search_path>>

\* The environment: a command is installed, moved or removed.
ChangeSearchPath(c, d) ==
    /\ search_path[c] # d
    /\ search_path' = [search_path EXCEPT ![c] = d]
    /\ UNCHANGED <<clientSide, twitchVars, connecting, cmd_path_cache, resolved>>

\* A process that has resolved nothing yet, with any search path.
InitResolver ==
    /\ foreground = {}
    /\ ClientConstructed
    /\ connecting = NotConnecting
    /\ cmd_path_cache = [k \in CommandNames \X DefaultCommands |-> NoPath]
    /\ search_path \in [CommandNames \cup DefaultCommands -> Dirs \cup {None}]
    /\ resolved = NotResolved
    /\ ChatConstructed

NextResolver ==
    \/ \E n \in CommandNames, f \in DefaultCommands : GetCommandPath(n, f)
    \/ \E c \in CommandNames \cup DefaultCommands, d \in Dirs \cup {None} :
          ChangeSearchPath(c, d)

SpecResolver == InitResolver /\ [][NextResolver]_vars

\* ------------------------------------------- the facade beside the monitor
\* A new client used by one caller of call_tool, get_openai_functions and
\* get_tool_list and never closed.
InitFacade == foreground = {"t1"} /\ Constructed

\* The disable lists the caller passes.
DisableLists == {{}, {"search"}}

NextFacade ==
    \/ \E cfg \in Configs, cb \in Callbacks : Initialize(cfg, cb)
    \/ \E v \in BOOLEAN : SetDisabled(v)
    \/ \E c \in Callers : CallTool(c)
    \/ \E c \in Callers : CallToolGranted(c)
    \/ \E c \in Callers : CallToolReturn(c)
    \/ \E disable_tools \in DisableLists : GetOpenAiFunctions(disable_tools)
    \/ GetToolList
    \/ MonitorStart
    \/ EstablishOk
    \/ EstablishFail
    \/ HandshakeOk
    \/ HandshakeFail
    \/ MonitorLockGranted
    \/ RefreshDone
    \/ PingOk
    \/ PingFail
    \/ HeartbeatSleepDone
    \/ TeardownDone
    \/ CallbackDone
    \/ RetrySleepDone

SpecFacade == InitFacade /\ [][NextFacade]_vars

\* ------------------------------- twitch_service.py: SimpleTwitchChat
\* The listener of the Twitch chat, followed on its own: start(), stop() and
\* the tasks running _listen_loop.  A task is a record: where it is
\* suspended (pc), its local reconnect_delay (0 before line 44 has run and
\* once the coroutine has ended), the duration of the asyncio.sleep it is
\* suspended in, whether its connection has delivered data, and a cancel()
\* not yet delivered.
MaxStarts == 2
MaxConnects == 7

\* line 44 and line 48
RECONNECT_DELAY_START == 5
\* line 54
RECONNECT_DELAY_CAP == 60

Min(a, b) == IF a < b THEN a ELSE b

\* line 54: reconnect_delay = min(reconnect_delay * 2, 60)
NextDelayUncapped(d) == d * 2
NextDelay(d) == Min(d * 2, RECONNECT_DELAY_CAP)

Listener(pc, d, sl, rd, c) ==
    [pc |-> pc, reconnect_delay |-> d, sleeping |-> sl, read |-> rd,
     cancelled |-> c]

\* The coroutine has ended: its frame is gone.
Ended == Listener("done", 0, 0, FALSE, FALSE)

\* Lines 49-54, the except clause up to its await: an Exception left
\* _connect_and_read while the delay was d.
AfterException(d) ==
    IF ~running
    THEN Ended
    ELSE Listener("sleep", d, d, FALSE, FALSE)

\* Line 45, the loop test, then lines 47 and 56-68: _connect_and_read makes
\* the socket and connects it without suspending; it raises, or goes on to
\* await the first data (line 70).
ListenLoop(i, d) ==
    IF running
    THEN /\ connects < MaxConnects
         /\ connects' = connects + 1
         /\ sock' = "set"
         /\ \E ok \in BOOLEAN :
               listeners' = [listeners EXCEPT ![i] =
                               IF ok THEN Listener("recv", d, 0, FALSE, FALSE)
                               ELSE AfterException(d)]
    ELSE /\ listeners' = [listeners EXCEPT ![i] = Ended]
         /\ UNCHANGED <<connects, sock>>

\* start, lines 24-28
Start ==
    /\ ~running
    /\ Len(listeners) < MaxStarts
    /\ running' = TRUE
    /\ listeners' = Append(listeners, Listener("created", 0, 0, FALSE, FALSE))
    /\ UNCHANGED <<sock, stop_pc, stop_awaits, connects>>
    /\ UNCHANGED <<clientSide, connecting, cmd_path_cache, search_path,
                   resolved>>

\* stop, lines 30-36 up to `await self._task`, and lines 37-39 when the
\* task is done already.
Stop ==
    /\ stop_pc = "idle"
    /\ running
    /\ running' = FALSE
    /\ IF listeners = <<>>
       THEN /\ sock' = "none"
            /\ UNCHANGED <<listeners, stop_pc, stop_awaits>>
       ELSE LET t == Len(listeners) IN
            IF listeners[t].pc = "done"
            THEN /\ sock' = "none"
                 /\ UNCHANGED <<listeners, stop_pc, stop_awaits>>
            ELSE /\ listeners' = [listeners EXCEPT ![t].cancelled = TRUE]
                 /\ stop_pc' = "awaiting"
                 /\ stop_awaits' = t
                 /\ UNCHANGED sock
    /\ UNCHANGED connects
    /\ UNCHANGED <<clientSide, connecting, cmd_path_cache, search_path,
                   resolved>>

\* stop, lines 36-39: the awaited task has ended; stop() closes the socket
\* self._sock names now.
StopResumed ==
    /\ stop_pc = "awaiting"
    /\ listeners[stop_awaits].pc = "done"
    /\ stop_pc' = "idle"
    /\ stop_awaits' = 0
    /\ sock' = "none"
    /\ UNCHANGED <<running, listeners, connects>>
    /\ UNCHANGED <<clientSide, connecting, cmd_path_cache, search_path,
                   resolved>>

\* _listen_loop, lines 44-47: the task runs for the first time.
ListenerStart(i) ==
    /\ listeners[i].pc = "created"
    /\ ~listeners[i].cancelled
    /\ ListenLoop(i, RECONNECT_DELAY_START)
    /\ UNCHANGED <<running, stop_pc, stop_awaits>>
    /\ UNCHANGED <<clientSide, connecting, cmd_path_cache, search_path,
                   resolved>>

\* _connect_and_read, lines 69-77: sock_recv returned data, whose lines are
\* handled (handling may raise, when the answer to a PING cannot be sent),
\* or returned nothing, or raised.  Data read without an Exception leads to
\* the test of line 69: while running the task awaits more; otherwise
\* _connect_and_read returns, line 48 resets the delay, and the test of
\* line 45 ends the loop.
Recv(i, outcome) ==
    /\ listeners[i].pc = "recv"
    /\ ~listeners[i].cancelled
    /\ sock = "none" => outcome = "error"
    /\ listeners' = [listeners EXCEPT ![i] =
          IF outcome = "data"
          THEN IF running
               THEN Listener("recv", listeners[i].reconnect_delay, 0, TRUE,
                             FALSE)
               ELSE Ended
          ELSE AfterException(listeners[i].reconnect_delay)]
    /\ UNCHANGED <<running, sock, stop_pc, stop_awaits, connects>>
    /\ UNCHANGED <<clientSide, connecting, cmd_path_cache, search_path,
                   resolved>>

\* Lines 53-54, then 45 and 47: the sleep is over, the delay grows, and the
\* loop goes round.
SleepDone(i) ==
    /\ listeners[i].pc = "sleep"
    /\ ~listeners[i].cancelled
    /\ ListenLoop(i, NextDelay(listeners[i].reconnect_delay))
    /\ UNCHANGED <<running, stop_pc, stop_awaits>>
    /\ UNCHANGED <<clientSide, connecting, cmd_path_cache, search_path,
                   resolved>>

\* Line 35: the task stop() cancelled runs again: the await it is suspended
\* in (or its first step) raises CancelledError, which `except Exception`
\* (line 49) does not catch.
ListenerCancelled(i) ==
    /\ listeners[i].cancelled
    /\ listeners[i].pc # "done"
    /\ listeners' = [listeners EXCEPT ![i] = Ended]
    /\ UNCHANGED <<running, sock, stop_pc, stop_awaits, connects>>
    /\ UNCHANGED <<clientSide, connecting, cmd_path_cache, search_path,
                   resolved>>

\* A listener just constructed, beside a client nobody uses.
InitTwitch == foreground = {} /\ Constructed

NextTwitch ==
    \/ Start
    \/ Stop
    \/ StopResumed
    \/ \E i \in DOMAIN listeners : ListenerStart(i)
    \/ \E i \in DOMAIN listeners, outcome \in {"data", "eof", "error"} :
          Recv(i, outcome)
    \/ \E i \in DOMAIN listeners : SleepDone(i)
    \/ \E i \in DOMAIN listeners : ListenerCancelled(i)

SpecTwitch == InitTwitch /\ [][NextTwitch]_vars

\* ------------------------------------------------------------- properties

\* C1: the capability cache (raw and projected) is empty after construction
\* and once a failure has been handled (the monitor sleeps before its retry);
\* it is non-empty only in an iteration whose handshake and whose refresh
\* both succeeded.
C1_CacheOnlyAfterRefresh ==
    /\ (monitor_task = "none" \/ generation = 0) => CacheEmpty
    /\ monitor_task = "retry_sleep" => CacheEmpty
    /\ ~CacheEmpty => handshaken /\ refreshed /\ conn = generation

\* A filled cache in the second iteration: the first connection was lost,
\* the loss was handled, and the new connection refreshed the cache.
C1_Witness == ~CacheEmpty /\ generation = 2 /\ monitor_task = "hb_sleep"

\* C2: while a call_tool call is between its check of _conn and the return
\* of the call it forwarded, it holds the lock and no step sets or clears
\* _conn.
C2_CallExcludesConnMutation ==
    /\ [](\A c \in Callers : call_pc[c] = "inflight" => lock = c)
    /\ [][(\E c \in Callers : call_pc[c] = "inflight") => conn' = conn]_vars

\* The monitor has reached its finally block and waits for the lock that a
\* call in flight holds.
C2_Witness ==
    \E c \in Callers :
        /\ call_pc[c] = "inflight"
        /\ monitor_task = "wait_lock_clear"
        /\ conn # 0

\* C3: a call that call_tool forwards reaches a session whose transport is
\* still open (the iteration that made it has not begun to release it).
C3_CallReachesOpenSession ==
    \A c \in Callers : call_pc[c] = "inflight" => call_session[c] = "open"

\* C4: while no session is stored nobody holds the lock across a
\* suspension, so a call_tool caller waits at most for callers queued before
\* it; no call made or resumed then is forwarded: a caller that finds the
\* queue empty returns at once, and whoever returns, returns the
\* not-connected error.
C4_NotConnectedNeverBlocks ==
    /\ [](conn = 0 =>
            /\ lock = "free"
            /\ \A c \in Callers : call_pc[c] # "inflight")
    /\ [][conn = 0 =>
            /\ lock' = "free"
            /\ \A c \in Callers :
                 /\ call_pc'[c] # "inflight"
                 /\ (call_pc[c] = "wait_lock" /\ call_pc'[c] = "idle")
                       => call_returned' = "not_connected"
                 /\ (call_pc[c] = "idle" /\ waiters = <<>>)
                       => /\ call_pc'[c] = "idle"
                          /\ call_returned' \in {call_returned, "not_connected"}
         ]_vars

\* call_tool has returned the not-connected error while the monitor was
\* still opening a transport.
C4_Witness ==
    /\ call_returned = "not_connected"
    /\ conn = 0
    /\ monitor_task = "establish"

C7_CallbackOnHeartbeatLoss ==
    (/\ monitor_task = "retry_sleep"
     /\ lost = "cb"
     /\ on_failure_callback # None
     /\ ~disabled
     /\ ~shutdown)
        => attempt_callbacks = 1

\* C8: once a close() has returned, the monitor task it awaited is over: no
\* iteration is in progress (at most a task that a later initialize created
\* and that has not run yet) and no transport is open or being closed; and
\* from the moment close() is called no connection attempt starts.
C8_CloseWaitsForLoop ==
    /\ []((\E k \in Closers : close_pc[k] = "returned")
            => /\ monitor_task \in {"none", "created", "done"}
               /\ transport \in {"none", "closed"})
    /\ [][shutdown => generation' = generation]_vars

\* close() has returned after cancelling a monitor that had a transport open.
C8_Witness ==
    /\ \E k \in Closers : close_pc[k] = "returned"
    /\ transport = "closed"
    /\ monitor_task = "done"
    /\ handshaken

\* C9: at most one monitor task is alive, whatever initialize and close
\* calls were made.
C9_AtMostOneLoop ==
    /\ live_tasks <= 1
    /\ live_tasks = 1 <=> TaskAlive

\* After initialize, close and the end of the first loop, initialize was
\* called again (twice at least, the configuration was replaced): one task
\* is alive.
C9_Witness ==
    /\ \E k \in Closers : close_pc[k] = "returned"
    /\ generation = 1
    /\ attempt_config = "cfgA"
    /\ config = "cfgB"
    /\ monitor_task = "created"
    /\ live_tasks = 1

\* C10 as stated: while a monitor task is alive no step changes the stored
\* configuration or the stored callback.
C10_InitializeNoOp ==
    [][TaskAlive => /\ config' = config
                    /\ on_failure_callback' = on_failure_callback]_vars

\* C10 as amended: a step that replaces the stored configuration or callback
\* while a monitor task is alive starts no task and leaves that task, its
\* connection and the cache as they are; the task's next attempt is made
\* with the configuration stored when it starts.
C10_InitializeKeepsLoop ==
    /\ [][(TaskAlive /\ (config' # config
                         \/ on_failure_callback' # on_failure_callback))
            => UNCHANGED <<monitor_task, pending, cancel_requested,
                           generation, transport, attempt_config, sleeping,
                           live_tasks, conn, tools_cache, tools_openai_cache,
                           lock, waiters, shutdown, disabled>>]_vars
    /\ [][generation' # generation => attempt_config' = config]_vars

\* The loop's first attempt was made with cfgA; while that connection is in
\* its heartbeat, initialize has replaced the configuration and the callback.
C10_Witness ==
    /\ generation = 1
    /\ attempt_config = "cfgA"
    /\ config = "cfgB"
    /\ on_failure_callback = None
    /\ attempt_failed = "none"
    /\ monitor_task = "ping"

\* C11: get_openai_functions(disable_tools) returns exactly the entries of the
\* projected cache whose original name is not in disable_tools, in the order
\* of the cache (so no returned entry is a disabled one), and the call
\* changes nothing of the client, its session, its lock or its transport.
C11_ReadReturnsEnabledInOrder ==
    /\ [](functions_read.called =>
            LET r == functions_read.returned
                ex == functions_read.disable_tools
                cache == tools_openai_cache
                Kept(i) == cache[i].original_name \notin ex
                Rank(i) == Cardinality({j \in 1..i : Kept(j)})
            IN  /\ \A k \in DOMAIN r : r[k].original_name \notin ex
                /\ Len(r) = Cardinality({i \in DOMAIN cache : Kept(i)})
                /\ \A i \in DOMAIN cache : Kept(i) => r[Rank(i)] = cache[i])
    /\ [][functions_read' # functions_read =>
            UNCHANGED <<clientVars, lockVars, connVars, monitor_task,
                        callVars>>]_vars

\* The cache holds search and translate, search is disabled, and the call
\* returned the entry of translate alone.
C11_Witness ==
    /\ functions_read.called
    /\ tools_cache = <<Tool("search"), Tool("translate")>>
    /\ functions_read.disable_tools = {"search"}
    /\ functions_read.returned = <<OpenAiEntry(Tool("translate"))>>

\* C12: in every state (every point at which a reader can run) the projected
\* list has the length of the raw list and its i-th entry is the OpenAI-format
\* entry of the raw list's i-th tool; the pair is the empty pair or the whole
\* answer of a list_tools call.
C12_ProjectedMatchesRaw ==
    /\ Len(tools_openai_cache) = Len(tools_cache)
    /\ \A i \in DOMAIN tools_cache :
          LET t == tools_cache[i]
              o == tools_openai_cache[i]
          IN  /\ o.type = "function"
              /\ o.original_name = t.name
              /\ o.function.name = t.name
              /\ o.function.description = t.description
              /\ o.function.parameters = t.inputSchema
    /\ tools_cache \in ToolLists

\* A populated pair that call_tool callers and readers can observe while the
\* heartbeat of its connection runs, and a client setting changes meanwhile.
C12_Witness ==
    /\ Len(tools_cache) = 2
    /\ Len(tools_openai_cache) = 2
    /\ monitor_task = "ping"
    /\ disabled

\* C13: while the failure callback runs, the client exposes no session and an
\* empty cache: _conn and both cache fields were cleared before the callback
\* was invoked.
C13_ClearedBeforeCallback ==
    monitor_task = "callback" => conn = 0 /\ CacheEmpty

\* C14: whatever the failure callback does (return or raise), the monitor
\* task goes on: unless close() intervenes, it leaves the callback and the
\* clearing that follows it only to sleep the retry delay, with _conn and the
\* cache cleared, and never ends there.
C14_CallbackFailureKeepsLoop ==
    [][(/\ monitor_task \in {"callback", "wait_lock_clear"}
        /\ attempt_callbacks = 1
        /\ monitor_task' \notin {"callback", "wait_lock_clear"}
        /\ ~shutdown')
       => /\ monitor_task' = "retry_sleep"
          /\ sleeping' = RECONNECT_SLEEP
          /\ conn' = 0
          /\ tools_cache' = <<>>
          /\ tools_openai_cache' = <<>>]_vars

\* C15: the failure callback is invoked at most once in an iteration of the
\* monitor loop (one failed attempt or one lost connection), and invocations
\* do not overlap: the callback runs only inside the one live monitor task,
\* and an invocation starts only in a step of that task that is not already
\* inside the callback.
C15_CallbackNeverOverlaps ==
    /\ [](attempt_callbacks <= 1)
    /\ [](monitor_task = "callback" => live_tasks = 1 /\ attempt_callbacks = 1)
    /\ [][attempt_callbacks' # attempt_callbacks =>
            \/ attempt_callbacks' = 0 /\ generation' = generation + 1
            \/ /\ attempt_callbacks' = 1
               /\ monitor_task # "callback"
               /\ monitor_task' = "callback"
               /\ live_tasks' = 1]_vars
    /\ [][monitor_task' = "callback" /\ monitor_task # "callback" =>
            /\ attempt_callbacks' = 1
            /\ attempt_callbacks = 0 \/ generation' = generation + 1]_vars

\* The callback runs for the failure of the second attempt, in the one live
\* monitor task, which left the first iteration before it began the second.
C15_Witness ==
    /\ generation = 2
    /\ monitor_task = "callback"
    /\ attempt_callbacks = 1
    /\ attempt_failed # "none"
    /\ live_tasks = 1

\* C16: once close() has set _shutdown no invocation of the failure callback
\* starts; a failure that reaches the except clause during the shutdown (the
\* cancelled iteration's transport raising as it is closed) is not reported,
\* and a callback that was running when close() was called is cancelled.
C16_NoCallbackAfterClose ==
    /\ [][monitor_task' = "callback" /\ monitor_task # "callback" =>
            ~shutdown /\ ~shutdown']_vars
    /\ [][shutdown => attempt_callbacks' = attempt_callbacks]_vars
    /\ [](handled = "shutdown" => attempt_callbacks = 0)
    /\ [](shutdown /\ monitor_task = "callback" => cancel_requested)

\* close() cancelled a connected iteration, closing its transport raised, and
\* the client's callback, though registered and not disabled, was not invoked.
C16_Witness ==
    /\ handled = "shutdown"
    /\ on_failure_callback # None
    /\ ~disabled
    /\ handshaken
    /\ transport = "closed"
    /\ attempt_callbacks = 0
    /\ monitor_task = "done"

C18_EnableDoesNotResume ==
    /\ [][generation' # generation =>
            monitor_task \in {"created", "retry_sleep"} /\ ~disabled]_vars
    /\ [][disabled' # disabled =>
            monitor_task' = monitor_task /\ generation' = generation]_vars
    /\ [][(monitor_task \in {"none", "done"} /\ monitor_task' # monitor_task)
           => /\ monitor_task' = "created"
              /\ live_tasks' = live_tasks + 1
              /\ disabled' = disabled
              /\ generation' = generation]_vars

\* The loop ended at its test because disabled was set (neither close() nor a
\* raising callback ended it); disabled has been cleared since, and the task
\* is still finished with no further attempt.
C18_Witness ==
    /\ monitor_task = "done"
    /\ ~shutdown
    /\ ~disabled
    /\ attempt_callbacks = 0
    /\ generation = 1
    /\ live_tasks = 0

\* C19: a refresh that fails (list_tools raises after the handshake) leaves
\* both cache fields and _conn as they were, invokes no callback, starts no
\* teardown and no new attempt: the monitor goes on to the first ping of the
\* same connection, whose heartbeat then runs with the cache it had.
C19_FailedRefreshKeepsConnection ==
    /\ [][(/\ monitor_task = "refresh"
            /\ monitor_task' # "refresh"
            /\ ~refreshed'
            /\ ~cancel_requested)
           => /\ monitor_task' = "ping"
              /\ UNCHANGED <<cacheVars, conn, connVars, pending,
                             attempt_callbacks, handled, attempt_failed>>]_vars
    /\ [](monitor_task \in {"ping", "hb_sleep"} /\ ~refreshed =>
            /\ conn = generation
            /\ transport = "open"
            /\ CacheEmpty
            /\ attempt_callbacks = 0
            /\ attempt_failed = "none")

\* The heartbeat of a connection whose refresh failed: connected, pinged
\* once, nothing cached.
C19_Witness ==
    /\ monitor_task = "hb_sleep"
    /\ handshaken
    /\ ~refreshed
    /\ conn = generation
    /\ CacheEmpty

\* C20: in each connection generation the monitor's steps are ordered: the
\* session reference is stored (with the lock free) only when the handshake
\* of that generation has succeeded, the refresh begins in that same step
\* and at no other, so once in a generation, and the first ping is sent only
\* when the refresh has ended; later pings follow the heartbeat sleep.
C20_HandshakeStoreRefreshThenPing ==
    /\ [][(monitor_task' = "refresh" /\ monitor_task # "refresh") =>
            /\ monitor_task \in {"handshake", "wait_lock_set"}
            /\ handshaken'
            /\ lock = "free"
            /\ conn = 0
            /\ conn' = generation
            /\ generation' = generation]_vars
    /\ [][(conn' # conn /\ conn' # 0) =>
            handshaken' /\ monitor_task' = "refresh"]_vars
    /\ [][(monitor_task' = "ping" /\ monitor_task # "ping") =>
            /\ monitor_task \in {"refresh", "hb_sleep"}
            /\ conn' = generation
            /\ generation' = generation]_vars
    /\ [][(monitor_task' \in {"handshake", "wait_lock_set"}
            /\ monitor_task' # monitor_task) =>
            monitor_task \in {"establish", "handshake"}]_vars
    /\ [][(monitor_task' = "establish" /\ monitor_task # "establish") =>
            generation' = generation + 1]_vars
    /\ [](monitor_task \in {"refresh", "ping", "hb_sleep"} =>
            handshaken /\ conn = generation)

\* The first ping of the second connection is being sent: its handshake
\* succeeded, its session is stored and its refresh filled the cache.
C20_Witness ==
    /\ monitor_task = "ping"
    /\ generation = 2
    /\ handshaken
    /\ conn = 2
    /\ refreshed
    /\ ~CacheEmpty

\* C21: get_openai_functions, get_tool_list and call_tool (whether the call
\* it forwards returns or raises) change nothing of what the monitor owns:
\* _conn, both cache fields, the shutdown and disabled flags and the monitor
\* task stay as they are, and no failure handling, teardown or new attempt
\* begins in a step of theirs.
C21_FacadeLeavesSharedState ==
    [][(\/ call_pc' # call_pc
        \/ call_returned' # call_returned
        \/ functions_read' # functions_read
        \/ tool_list_read' # tool_list_read)
       => UNCHANGED <<conn, cacheVars, shutdown, disabled, config,
                      on_failure_callback, monitor_task, pending,
                      cancel_requested, connVars, sleeping, live_tasks,
                      obsVars>>]_vars

\* A forwarded call failed while the heartbeat of its connection sleeps, and
\* both reads returned the tools of that connection, which is still stored.
C21_Witness ==
    /\ call_returned = "failed"
    /\ call_pc["t1"] = "idle"
    /\ conn = generation
    /\ monitor_task = "hb_sleep"
    /\ Len(functions_read.returned) = 2
    /\ Len(tool_list_read.returned) = 2
    /\ Len(tools_cache) = 2

\* C22: the monitor has at most one transport, that of its current
\* iteration, and it is released before the iteration is left: a transport is
\* opened only where none is open, it is open or being closed only inside
\* the one live task's iteration, and when the task sleeps before a retry,
\* waits to clear, runs the callback, begins a new attempt or has ended
\* (after a failed ping, an error or a cancellation), the transport is closed.
C22_OneTransportReleased ==
    /\ [][transport' = "open" /\ transport # "open" =>
            transport = "none" /\ generation' = generation]_vars
    /\ [][generation' # generation =>
            transport \in {"none", "closed"} /\ transport' = "none"]_vars
    /\ [](transport \in {"open", "closing"} =>
            /\ live_tasks = 1
            /\ monitor_task \in {"handshake", "wait_lock_set", "refresh",
                                 "ping", "hb_sleep", "teardown"})
    /\ [](monitor_task \in {"none", "created", "callback", "wait_lock_clear",
                             "retry_sleep", "done"} =>
            transport \in {"none", "closed"})
    /\ [][transport = "open" /\ transport' # "open" =>
            transport' = "closing"]_vars
    /\ [][transport = "closing" /\ transport' # "closing" =>
            transport' = "closed"]_vars

\* The second attempt has opened its transport; the first iteration was left
\* with its own transport closed or never opened.
C22_Witness ==
    /\ generation = 2
    /\ transport = "open"
    /\ monitor_task = "handshake"
    /\ ~handshaken
    /\ live_tasks = 1

\* C23: connect() over SSE goes on to open a session only when the probe
\* received an event; a stream that ends, or a probe that runs out of its
\* 3 s without an event, makes connect() raise.
C23_SseNeedsEvent ==
    (connecting.kind = "sse" /\ connecting.pc \in {"session", "yielded"})
        => connecting.probe = "event"

\* C24: an attempt that fails on its configuration (connect() raises before
\* it opens anything) does not end the monitor task: the task ends in that
\* iteration only if close() was called, or at the loop test because
\* disabled is set; otherwise it sleeps the fixed delay and tries the stored
\* configuration again.
C24_ConfigErrorRetried ==
    /\ [][(/\ attempt_failed' = "config"
            /\ monitor_task # "done"
            /\ monitor_task' = "done")
           => \/ shutdown
              \/ disabled /\ monitor_task \in {"created", "retry_sleep"}]_vars
    /\ [][(/\ attempt_failed' = "config"
            /\ monitor_task # "retry_sleep"
            /\ monitor_task' = "retry_sleep")
           => sleeping' = RECONNECT_SLEEP]_vars
    /\ [][(/\ attempt_failed = "config"
            /\ monitor_task = "retry_sleep"
            /\ monitor_task' # "retry_sleep"
            /\ ~shutdown /\ ~disabled)
           => generation' = generation + 1 /\ attempt_config' = config]_vars

\* C25: the transport connect() opens is determined by the config: with a
\* command key it is the local process (stdio), whatever url and type say, or
\* nothing when the command is not found; without one, the type selects ws
\* (also when absent), sse or streamable HTTP, and any other type, like a
\* missing url, makes connect() raise a configuration error with no
\* transport opened.
C25_TransportSelection ==
    connecting.pc \notin {"idle", "called"} =>
        LET c == connecting.config
            NothingOpened(e) ==
                /\ connecting.kind = None
                /\ connecting.pc = "raised"
                /\ connecting.error = e
                /\ connecting.transport = "none"
        IN  /\ c.command # None =>
                  \/ connecting.kind = "stdio"
                  \/ NothingOpened("FileNotFoundError")
            /\ (c.command = None /\ c.url = None) => NothingOpened("KeyError")
            /\ (c.command = None /\ c.url # None) =>
                  /\ c.type \in {None, "ws"} => connecting.kind = "ws"
                  /\ c.type = "sse" => connecting.kind = "sse"
                  /\ c.type \in {"streamablehttp", "streamable-http"} =>
                        connecting.kind = "streamablehttp"
                  /\ c.type \in {"stdio", "http"} =>
                        NothingOpened("ValueError")
            /\ connecting.kind = None => connecting.transport = "none"

\* A config with a command, a url and type sse: the local process was opened.
C25_Witness ==
    /\ connecting.config = ConnectConfig("npx", "sse", "u")
    /\ connecting.kind = "stdio"
    /\ connecting.transport = "open"
    /\ connecting.pc = "yielded"

\* C26: get_command_path(name, fallback) returns the path of name if the
\* search path has it, else that of fallback, else raises; a path returned
\* for a pair is kept for that pair, and every later call for the pair
\* returns it whatever the search path has become; a call that raises stores
\* nothing, so the next call for the pair looks the commands up again.
C26_ResolutionMemoizedPerPair ==
    /\ [][(search_path' = search_path /\ resolved'.called) =>
            LET name == resolved'.key[1]
                fallback == resolved'.key[2]
                held == cmd_path_cache[resolved'.key]
            IN  IF held # NoPath
                THEN /\ resolved'.returned = held
                     /\ ~resolved'.raised
                     /\ cmd_path_cache' = cmd_path_cache
                ELSE IF search_path[name] # None
                THEN /\ resolved'.returned = <<search_path[name], name>>
                     /\ ~resolved'.raised
                     /\ cmd_path_cache'[resolved'.key] = resolved'.returned
                ELSE IF search_path[fallback] # None
                THEN /\ resolved'.returned = <<search_path[fallback], fallback>>
                     /\ ~resolved'.raised
                     /\ cmd_path_cache'[resolved'.key] = resolved'.returned
                ELSE /\ resolved'.raised
                     /\ cmd_path_cache' = cmd_path_cache]_vars
    /\ [][\A k \in DOMAIN cmd_path_cache :
            \/ cmd_path_cache'[k] = cmd_path_cache[k]
            \/ /\ cmd_path_cache[k] = NoPath
               /\ resolved'.key = k
               /\ \A j \in DOMAIN cmd_path_cache \ {k} :
                     cmd_path_cache'[j] = cmd_path_cache[j]]_vars

\* A call returned the path a pair was resolved to earlier although the
\* command has since gone from the search path and the fallback is there.
C26_Witness ==
    /\ resolved.called
    /\ ~resolved.raised
    /\ resolved.key = <<"npx", "uv">>
    /\ resolved.returned = <<"/usr/bin", "npx">>
    /\ search_path["npx"] = None
    /\ search_path["uv"] = "/opt/bin"
    /\ cmd_path_cache[<<"npx", "node">>] = <<"/opt/bin", "npx">>

\* C27: while the monitor pings or sleeps between pings it neither holds the
\* lock nor waits for it, so a call_tool call made then by an idle caller
\* gets the lock at once and is forwarded to the session, and
\* get_openai_functions and get_tool_list return the cache at once.
C27_HeartbeatHoldsNoLock ==
    /\ [](monitor_task \in {"ping", "hb_sleep"} =>
            /\ lock # Sup
            /\ \A i \in DOMAIN waiters : waiters[i] # Sup)
    /\ [](monitor_task \in {"ping", "hb_sleep"} =>
            \A c \in foreground \cap Callers :
                (\A d \in Callers : call_pc[d] = "idle") =>
                    ENABLED (CallTool(c) /\ call_pc'[c] = "inflight"))
    /\ [](monitor_task \in {"ping", "hb_sleep"} =>
            /\ ENABLED (/\ GetOpenAiFunctions({})
                        /\ functions_read'.returned = tools_openai_cache)
            /\ ENABLED (/\ GetToolList
                        /\ Len(tool_list_read'.returned) = Len(tools_cache)))

\* A call made during the heartbeat sleep is in flight, holding the lock, and
\* a read made meanwhile returned the cached tools.
C27_Witness ==
    /\ monitor_task = "hb_sleep"
    /\ call_pc["t1"] = "inflight"
    /\ lock = "t1"
    /\ call_session["t1"] = "open"
    /\ Len(functions_read.returned) = 2
    /\ ~tool_list_read.called

\* C28: close() may be called again, after the first call returned or while
\* it still awaits the task: no close() raises; the transport of the
\* cancelled iteration, once it is being closed, is closed whatever further
\* cancel() arrives, and is closed when the task has ended; and when all
\* close() calls have returned the client is shut down (for good) with no
\* iteration of the loop in progress.
C28_CloseTwice ==
    /\ [](\A k \in Closers : close_pc[k] # "raised")
    /\ [][transport = "closing" => transport' \in {"closing", "closed"}]_vars
    /\ [](monitor_task = "done" => transport \in {"none", "closed"})
    /\ [][shutdown => shutdown']_vars
    /\ []((\A k \in Closers : close_pc[k] = "returned") =>
            /\ shutdown
            /\ ~cancel_requested
            /\ monitor_task \in {"none", "created", "done"}
            /\ transport \in {"none", "closed"})

\* Two close() calls await the task, whose cancelled iteration is closing
\* its transport, the second cancel() having reached it there.
C28_Witness ==
    /\ \A k \in Closers : close_pc[k] = "awaiting"
    /\ monitor_task = "teardown"
    /\ transport = "closing"
    /\ pending = "cancel"
    /\ ~cancel_requested

\* C29: once a close() has returned, _conn is None and both cache fields are
\* empty, whatever the monitor was doing when close() was called.
C29_ClosedClientIsCleared ==
    (\E k \in Closers : close_pc[k] = "returned") => conn = 0 /\ CacheEmpty

\* C30: after a failure the monitor has detected (an attempt that failed, a
\* connection that was lost), a new attempt is bound to come as long as the
\* client is neither shut down nor disabled: the monitor task, which alone
\* can make it, does not end in the iteration of the failure unless the
\* client is shut down or disabled; it reaches the retry sleep instead,
\* whatever call_tool callers do meanwhile.
C30_FailureLeadsToRetry ==
    [][(/\ attempt_failed' # "none" \/ lost' # "no"
        /\ generation' = generation
        /\ TaskAlive
        /\ monitor_task' = "done")
       => shutdown \/ disabled]_vars

\* ---------------------------------------------------------------- C31
\* C31: shutdown is terminal.  Once close() has set the shutdown flag it
\* stays set, no step begins a connection attempt or opens a transport any
\* more, and a monitor task that initialize creates after close() leaves its
\* first step finished, without an attempt and without touching a transport.
C31_ShutDownIsTerminal ==
    [][shutdown =>
         /\ shutdown'
         /\ generation' = generation
         /\ transport' = "open" => transport = "open"
         /\ (monitor_task = "created" /\ monitor_task' # "created")
               => monitor_task' = "done" /\ transport' = transport]_vars

\* A client that made a connection attempt, was closed, and was then given
\* to initialize again: a new task exists that close() has not cancelled.
C31_Witness ==
    /\ shutdown
    /\ generation > 0
    /\ monitor_task = "created"
    /\ ~cancel_requested

\* ---------------------------------------------------------------- C32
\* C32: in every reachable state a non-empty cache implies a stored session
\* reference.  A step that puts tools into the cache is taken while a
\* reference is stored and leaves it stored; a step that empties the
\* reference or a filled cache field empties the reference and both cache
\* fields together, and is taken with the lock (no call_tool holds it).
C32_CacheImpliesSession ==
    /\ [](~CacheEmpty => conn # 0)
    /\ [][/\ (cacheVars' # cacheVars /\ ~CacheEmpty')
              => conn # 0 /\ conn' = conn
          /\ \/ conn # 0 /\ conn' = 0
             \/ tools_cache # <<>> /\ tools_cache' = <<>>
             \/ tools_openai_cache # <<>> /\ tools_openai_cache' = <<>>
             => /\ conn' = 0
                /\ CacheEmpty'
                /\ lock = "free"
                /\ \A c \in Callers : call_pc[c] # "inflight"]_vars

\* The transport of a connection has been closed while the reference to its
\* session and the tools listed from it are both still stored: the finally
\* block has yet to clear them.
C32_Witness ==
    /\ ~CacheEmpty
    /\ conn # 0
    /\ transport = "closed"

\* ---------------------------------------------------------------- C33
\* C33: call_tool calls on one client are serialized.  At most one forwarded
\* call is in flight at any time; a call is forwarded only by a step taken
\* while no call is in flight; and a call issued while another is in flight
\* waits for the lock.
InFlight == {c \in Callers : call_pc[c] = "inflight"}

C33_CallsSerialized ==
    /\ [](Cardinality(InFlight) <= 1)
    /\ [][\A c \in Callers :
            /\ (call_pc[c] # "inflight" /\ call_pc'[c] = "inflight")
                 => InFlight = {}
            /\ (call_pc[c] = "idle" /\ call_pc'[c] # "idle"
                   /\ InFlight # {})
                 => call_pc'[c] = "wait_lock"]_vars

\* One call is in flight on the session and a second one, issued meanwhile,
\* waits for the lock.
C33_Witness ==
    /\ call_pc["t1"] = "inflight"
    /\ call_pc["t2"] = "wait_lock"
    /\ conn # 0

\* ---------------------------------------------------------------- C34
\* C34: the Twitch listener's reconnect delay is exponential and capped.  A
\* task's delay, once assigned, is one of 5, 10, 20, 40, 60, and so is the
\* duration of every sleep before a reconnect.  The task's first step sets
\* the delay to 5; a step that ends a sleep replaces the delay d by 2 * d,
\* or by 60 where 2 * d is more; no other step of a running task changes
\* it, and a sleep begun lasts the delay of that moment.  A connection is
\* attempted only by a step taken while the running flag is set, and never
\* by a task stop() has cancelled.
C34_Delays == {5, 10, 20, 40, 60}

C34_Doubled(d) == IF 2 * d > 60 THEN 60 ELSE 2 * d

\* The task took a step of its own (a cancel() requested is not one).
C34_Stepped(old, new) ==
    \/ new.pc # old.pc
    \/ new.reconnect_delay # old.reconnect_delay
    \/ new.sleeping # old.sleeping
    \/ new.read # old.read

C34_BackoffDoublesToCap ==
    /\ [](\A i \in DOMAIN listeners :
            /\ listeners[i].reconnect_delay \in C34_Delays \cup {0}
            /\ listeners[i].sleeping \in C34_Delays \cup {0}
            /\ listeners[i].pc \in {"recv", "sleep"}
                 => listeners[i].reconnect_delay \in C34_Delays
            /\ listeners[i].pc = "sleep" => listeners[i].sleeping \in C34_Delays)
    /\ [][\A i \in DOMAIN listeners :
            LET old == listeners[i]
                new == listeners'[i]
            IN  /\ (old.pc = "created" /\ new.pc \in {"recv", "sleep"})
                     => new.reconnect_delay = 5
                /\ (old.pc = "sleep" /\ C34_Stepped(old, new) /\ new.pc # "done")
                     => new.reconnect_delay = C34_Doubled(old.reconnect_delay)
                /\ (old.pc = "recv" /\ new.pc # "done")
                     => new.reconnect_delay = old.reconnect_delay
                /\ new.pc = "sleep"
                     => new.sleeping = new.reconnect_delay
                /\ (connects' # connects /\ C34_Stepped(old, new))
                     => running /\ ~old.cancelled]_vars
    /\ [][connects' # connects => running /\ running']_vars

\* The delay has reached its cap and stayed there: the task sleeps 60 for
\* the second time (its sixth failed connection in a row).
C34_Witness ==
    \E i \in DOMAIN listeners :
        /\ listeners[i].pc = "sleep"
        /\ listeners[i].sleeping = 60
        /\ connects = 6
        /\ Len(listeners) = 1
        /\ running
====
